---- MODULE Spec2Model ----
(***************************************************************************)
(* The SCUF Envision Pro V2 bridge: the connection lifecycle of            *)
(* BridgeService (bridge.py), the input filter (input_filter.py), the      *)
(* mapping tables (constants.py) and the uinput publisher                  *)
(* (virtual_gamepad.py).                                                   *)
(*                                                                         *)
(* The bridge is one thread; its position is pc.  The only other actor is  *)
(* the signal handler, which may run between any two steps of the thread,  *)
(* so every place where the code reads _running is a step of its own.      *)
(***************************************************************************)
EXTENDS Integers, Sequences, FiniteSets, TLC

(***************************** bounds **************************************)
\* Longest batch of raw events one read() of the primary returns.
MaxBatch == 2
\* Most secondary (companion) nodes a discovery pass reports.
MaxSecondaries == 2
\* Most calls made on a VirtualGamepad taken alone.
MaxGamepadCalls == 4
\* Most entries of /sys/class/input a discovery pass enumerates.
MaxNodes == 2
\* Most calls made on an InputFilter taken alone; the values fed to it are
\* -MaxJitterValue..MaxJitterValue and its threshold is 1..MaxJitterThreshold.
MaxJitterCalls == 3
MaxJitterValue == 2
MaxJitterThreshold == 3
\* Most events handled in a run of the handlers taken alone.
MaxHandlerCalls == 4
\* Most calls of _open_devices and _release_physical taken alone.
MaxDeviceCalls == 4

(************************ constants.py *************************************)
SCUF_VENDOR_ID == 6940
SCUF_PRODUCT_ID_WIRED == 14853
SCUF_PRODUCT_ID_RECEIVER == 14857
VIRTUAL_VENDOR == 1118
VIRTUAL_PRODUCT == 2835

STICK_MIN == -32768
STICK_MAX == 32767
STICK_DEADZONE == 3500
TRIGGER_DEADZONE == 10
STICK_JITTER_THRESHOLD == 64

\* _wait_for_reconnect's default arguments, in seconds.
poll_interval == 2
max_wait == 300

\* evdev.ecodes (the kernel's input-event-codes.h): the number behind each code
\* name the tables use.
ecodes ==
  "BTN_SOUTH" :> 304 @@ "BTN_EAST" :> 305 @@ "BTN_C" :> 306 @@ "BTN_NORTH" :> 307 @@
  "BTN_WEST" :> 308 @@ "BTN_Z" :> 309 @@ "BTN_TL" :> 310 @@ "BTN_TR" :> 311 @@
  "BTN_TL2" :> 312 @@ "BTN_TR2" :> 313 @@ "BTN_SELECT" :> 314 @@ "BTN_START" :> 315 @@
  "BTN_MODE" :> 316 @@ "BTN_THUMBL" :> 317 @@ "BTN_THUMBR" :> 318 @@
  "BTN_TRIGGER_HAPPY1" :> 704 @@ "BTN_TRIGGER_HAPPY2" :> 705 @@
  "BTN_TRIGGER_HAPPY3" :> 706 @@
  "ABS_X" :> 0 @@ "ABS_Y" :> 1 @@ "ABS_Z" :> 2 @@ "ABS_RX" :> 3 @@ "ABS_RY" :> 4 @@
  "ABS_RZ" :> 5 @@ "ABS_HAT0X" :> 16 @@ "ABS_HAT0Y" :> 17

\* BUTTON_MAP with the physical Y button (sent as BTN_NORTH) mapped to the
\* code of its own name, which is the canonical X.
BUTTON_MAP_y_on_north ==
  [c \in {"BTN_SOUTH", "BTN_EAST", "BTN_C", "BTN_NORTH", "BTN_WEST", "BTN_Z",
          "BTN_TL", "BTN_TR", "BTN_TL2", "BTN_TR2", "BTN_MODE"} |->
     CASE c = "BTN_SOUTH" -> "BTN_SOUTH"
       [] c = "BTN_EAST"  -> "BTN_EAST"
       [] c = "BTN_C"     -> "BTN_NORTH"
       [] c = "BTN_NORTH" -> "BTN_NORTH"
       [] c = "BTN_WEST"  -> "BTN_TL"
       [] c = "BTN_Z"     -> "BTN_TR"
       [] c = "BTN_TL"    -> "BTN_SELECT"
       [] c = "BTN_TR"    -> "BTN_START"
       [] c = "BTN_TL2"   -> "BTN_THUMBL"
       [] c = "BTN_TR2"   -> "BTN_THUMBR"
       [] c = "BTN_MODE"  -> "BTN_MODE"]

BUTTON_MAP ==
  [c \in {"BTN_SOUTH", "BTN_EAST", "BTN_C", "BTN_NORTH", "BTN_WEST", "BTN_Z",
          "BTN_TL", "BTN_TR", "BTN_TL2", "BTN_TR2", "BTN_MODE"} |->
     CASE c = "BTN_SOUTH" -> "BTN_SOUTH"
       [] c = "BTN_EAST"  -> "BTN_EAST"
       [] c = "BTN_C"     -> "BTN_NORTH"
       [] c = "BTN_NORTH" -> "BTN_WEST"
       [] c = "BTN_WEST"  -> "BTN_TL"
       [] c = "BTN_Z"     -> "BTN_TR"
       [] c = "BTN_TL"    -> "BTN_SELECT"
       [] c = "BTN_TR"    -> "BTN_START"
       [] c = "BTN_TL2"   -> "BTN_THUMBL"
       [] c = "BTN_TR2"   -> "BTN_THUMBR"
       [] c = "BTN_MODE"  -> "BTN_MODE"]

PADDLE_MAP ==
  [c \in {"BTN_TRIGGER_HAPPY1", "BTN_TRIGGER_HAPPY2", "BTN_TRIGGER_HAPPY3"} |-> c]

AXIS_MAP ==
  [c \in {"ABS_X", "ABS_Y", "ABS_Z", "ABS_RX", "ABS_RY", "ABS_RZ",
          "ABS_HAT0X", "ABS_HAT0Y"} |->
     CASE c = "ABS_X"     -> "ABS_X"
       [] c = "ABS_Y"     -> "ABS_Y"
       [] c = "ABS_Z"     -> "ABS_RX"
       [] c = "ABS_RX"    -> "ABS_Z"
       [] c = "ABS_RY"    -> "ABS_RZ"
       [] c = "ABS_RZ"    -> "ABS_RY"
       [] c = "ABS_HAT0X" -> "ABS_HAT0X"
       [] c = "ABS_HAT0Y" -> "ABS_HAT0Y"]

\* The axis codes the emulated device declares (the keys of AXIS_INFO).
AXIS_INFO ==
  {"ABS_X", "ABS_Y", "ABS_RX", "ABS_RY", "ABS_Z", "ABS_RZ", "ABS_HAT0X", "ABS_HAT0Y"}

(************************ small helpers ************************************)
Abs(n) == IF n < 0 THEN -n ELSE n
Min(a, b) == IF a < b THEN a ELSE b
Max(a, b) == IF a > b THEN a ELSE b

\* floor(a * b / q) for a, b >= 0, q > 0, b <= q and q * q below 2^31: the
\* product a * b, which 32-bit integers cannot hold, is never formed.
MulDivFloor(a, b, q) == (a \div q) * b + ((a % q) * b) \div q

\* F applied to v, with v evaluated once: a local of the code.
With(v, F(_)) == CHOOSE r \in {F(e) : e \in {v}} : TRUE

RECURSIVE HypotIn(_, _, _, _)
\* The largest r in lo..hi with r * r <= ax * ax + ay * ay, by bisection.  The
\* test compares r * r - ax * ax with ay * ay: the sum of the two squares,
\* which is 2^31 for the reading (-32768, -32768), is never formed.
HypotIn(ax, ay, lo, hi) ==
  IF lo >= hi THEN lo
  ELSE With((lo + hi + 1) \div 2,
            LAMBDA mid : IF (mid - ax) * (mid + ax) <= ay * ay
                         THEN HypotIn(ax, ay, mid, hi)
                         ELSE HypotIn(ax, ay, lo, mid - 1))

\* floor(sqrt(x*x + y*y)) for x, y in the signed 16-bit range: the root lies
\* between the larger of |x|, |y| and their sum, and below 46341.
HypotFloor(x, y) ==
  HypotIn(Abs(x), Abs(y), Max(Abs(x), Abs(y)), Min(Abs(x) + Abs(y), 46340))

\* ceiling(sqrt(x*x + y*y)).
HypotCeil(x, y) ==
  With(HypotFloor(x, y),
       LAMBDA m : IF (m - Abs(x)) * (m + Abs(x)) = y * y THEN m ELSE m + 1)

(************************ state *******************************************)
VARIABLES
  pc,               \* where the bridge thread is
  running,          \* BridgeService._running
  reconnect,        \* BridgeService._reconnect
  discovered,       \* BridgeService.discovered
  physical,         \* BridgeService._physical
  grabbed_devices,  \* BridgeService._grabbed_devices
  raw_left_x, raw_left_y, raw_right_x, raw_right_y,
  last,             \* InputFilter._last
  device,           \* VirtualGamepad._device: "none", "open", "closed"
  vabs,             \* the emulated device: last value written per axis
  unsynced,         \* the emulated device holds writes no syn() has followed
  emitted,          \* the writes the latest step of the thread made
  batch,            \* events of the current read() not yet handled
  waited,           \* _wait_for_reconnect's local
  err,              \* where the latest OSError of the session was raised: "none",
                    \* "read" (the primary), "write" (the emulated device)
  jitter_threshold, \* InputFilter.jitter_threshold
  sysfs,            \* /sys/class/input/event*, in the order glob() lists it
  calls             \* the calls made on a component taken alone, with their results

vars == <<pc, running, reconnect, discovered, physical, grabbed_devices,
          raw_left_x, raw_left_y, raw_right_x, raw_right_y, last,
          device, vabs, unsynced, emitted, batch, waited, err,
          jitter_threshold, sysfs, calls>>

filter_vars == <<raw_left_x, raw_left_y, raw_right_x, raw_right_y, last>>
gamepad_vars == <<device, vabs, unsynced>>
physical_vars == <<discovered, physical, grabbed_devices>>

\* What no step of a bridge session changes: the threshold the filter was
\* built with, and the state of the components taken alone.
unit_vars == <<jitter_threshold, sysfs, calls>>

(************************ input_filter.py **********************************)
\* filter_stick passing a reading outside the deadzone through as it came,
\* the deadzone not subtracted from the magnitude.
stick_component_unscaled(v, m, deadzone) ==
  LET t == (Abs(v) * STICK_MAX) \div Max(m, STICK_MAX)
  IN IF v < 0 THEN -t ELSE t

\* filter_stick losing the sign of the reading.
stick_component_unsigned(v, m, deadzone) ==
  LET a == Abs(v) * STICK_MAX
  IN IF m - deadzone >= STICK_MAX - deadzone
     THEN Min(STICK_MAX, a \div m)
     ELSE MulDivFloor(a, m - deadzone, m) \div (STICK_MAX - deadzone)

\* One component of filter_stick's result for a magnitude m >= deadzone:
\* int(n * scale * max_magnitude), clamped, where n = v / m and
\* scale = min((m - deadzone) / (max_magnitude - deadzone), 1.0).  int()
\* truncates toward zero.  For an integer m this is the code's value.
stick_component(v, m, deadzone) ==
  LET a == Abs(v) * STICK_MAX
      t == IF m - deadzone >= STICK_MAX - deadzone
           THEN a \div m
           ELSE MulDivFloor(a, m - deadzone, m) \div (STICK_MAX - deadzone)
      out == IF v < 0 THEN -t ELSE t
  IN Max(STICK_MIN, Min(STICK_MAX, out))

\* filter_stick(x, y) for a reading whose magnitude sqrt(x*x + y*y) is an
\* integer, as every reading the bridge is fed in this model is.
filter_stick(x, y) ==
  With(HypotFloor(x, y),
       LAMBDA m : IF m < STICK_DEADZONE THEN <<0, 0>>
                  ELSE <<stick_component(x, m, STICK_DEADZONE),
                         stick_component(y, m, STICK_DEADZONE)>>)

\* The integers from the smaller of a, b to the larger.
Between(a, b) == Min(a, b)..Max(a, b)

\* The results filter_stick(x, y) can give for any reading.  The magnitude is
\* a float; it is below the deadzone exactly when its floor is, and otherwise
\* each component grows with it, so the component lies between its values at
\* the floor and at the ceiling of the magnitude.  For an integral magnitude
\* the only result is filter_stick(x, y).
filter_stick_results(x, y) ==
  With(HypotFloor(x, y), LAMBDA lo :
  With(HypotCeil(x, y), LAMBDA hi :
    IF lo < STICK_DEADZONE THEN {<<0, 0>>}
    ELSE Between(stick_component(x, lo, STICK_DEADZONE),
                 stick_component(x, hi, STICK_DEADZONE))
         \X Between(stick_component(y, lo, STICK_DEADZONE),
                    stick_component(y, hi, STICK_DEADZONE))))

filter_trigger(value) == IF value < TRIGGER_DEADZONE THEN 0 ELSE value

\* suppress_jitter returning the new value without remembering it.
suppress_jitter_forgets(mem, key, new_value) ==
  IF key \in DOMAIN mem /\ Abs(new_value - mem[key]) < jitter_threshold
  THEN [value |-> mem[key], changed |-> FALSE, mem |-> mem]
  ELSE [value |-> new_value, changed |-> TRUE, mem |-> mem]

\* suppress_jitter measuring the value itself, as a deadzone does, where it
\* should measure the distance from the remembered value.
suppress_jitter_from_zero(mem, key, new_value) ==
  IF key \in DOMAIN mem /\ Abs(new_value) < jitter_threshold
  THEN [value |-> mem[key], changed |-> FALSE, mem |-> mem]
  ELSE [value |-> new_value, changed |-> TRUE,
        mem |-> [k \in DOMAIN mem \cup {key} |->
                   IF k = key THEN new_value ELSE mem[k]]]

\* suppress_jitter(key, new_value) on jitter memory mem (a function whose
\* domain is the keys seen so far): the value returned, whether it changed,
\* and the memory afterwards.
suppress_jitter(mem, key, new_value) ==
  IF key \in DOMAIN mem /\ Abs(new_value - mem[key]) < jitter_threshold
  THEN [value |-> mem[key], changed |-> FALSE, mem |-> mem]
  ELSE [value |-> new_value, changed |-> TRUE,
        mem |-> [k \in DOMAIN mem \cup {key} |->
                   IF k = key THEN new_value ELSE mem[k]]]

(************************ values ******************************************)
None == [role |-> "none", path |-> 0]
Primary == [role |-> "primary", path |-> 0]
Secondary(p) == [role |-> "secondary", path |-> p]

\* What discover_scuf() can return when it finds the controller: the
\* connection type of the primary and the paths of the secondaries.
DiscoveredDevice ==
  [connection_type : {"wired", "wireless"},
   secondary_event_paths : {[i \in 1..n |-> i] : n \in 0..MaxSecondaries}]

key_event(code, value) == [type |-> "EV_KEY", code |-> code, value |-> value]
abs_event(code, value) == [type |-> "EV_ABS", code |-> code, value |-> value]
syn_event == [type |-> "EV_SYN", code |-> "SYN_REPORT", value |-> 0]

\* The raw events the physical controller sends in this model.
RawEvents ==
  {key_event("BTN_SOUTH", 1), abs_event("ABS_X", STICK_MAX), abs_event("ABS_X", 0),
   abs_event("ABS_RX", 1023), syn_event}

Batches == UNION {[1..n -> RawEvents] : n \in 1..MaxBatch}

EmptyMem == [k \in {} |-> 0]

(************************ virtual_gamepad.py ******************************)
RECURSIVE apply_writes(_, _)
\* The axis values of the emulated device after the writes ws.
apply_writes(va, ws) ==
  IF ws = <<>> THEN va
  ELSE LET w == Head(ws)
       IN apply_writes(IF w.type = "EV_ABS" THEN [va EXCEPT ![w.code] = w.value] ELSE va,
                       Tail(ws))

\* create() declaring the buttons of BUTTON_MAP only.
create_capabilities_without_paddles ==
  [t \in {"EV_KEY", "EV_ABS"} |->
     IF t = "EV_KEY" THEN {BUTTON_MAP[c] : c \in DOMAIN BUTTON_MAP} ELSE AXIS_INFO]

\* create(): the capability set of the emulated device, the canonical codes
\* of BUTTON_MAP and PADDLE_MAP as keys and the keys of AXIS_INFO as axes.
create_capabilities ==
  [t \in {"EV_KEY", "EV_ABS"} |->
     IF t = "EV_KEY"
     THEN {BUTTON_MAP[c] : c \in DOMAIN BUTTON_MAP}
          \cup {PADDLE_MAP[c] : c \in DOMAIN PADDLE_MAP}
     ELSE AXIS_INFO]

\* emit_button, emit_axis and syn do nothing when no device exists.
gamepad_writes(ws) == IF device = "open" THEN ws ELSE <<>>

\* The publisher makes the writes ws, all of them.
gamepad_emit(ws) ==
  /\ vabs' = apply_writes(vabs, ws)
  /\ unsynced' = IF ws = <<>> THEN unsynced ELSE ws[Len(ws)].type # "EV_SYN"
  /\ emitted' = ws
  /\ UNCHANGED device

\* close() keeping its reference to the device it has destroyed.
VirtualGamepad_close_keeps_device(d) == [device |-> d, raised |-> FALSE]

\* VirtualGamepad.close() with _device = d: the _device afterwards ("closed"
\* is the None that follows a device) and whether the call raised.
VirtualGamepad_close(d) ==
  [device |-> IF d = "open" THEN "closed" ELSE d, raised |-> FALSE]

(************************ bridge.py: event handlers ***********************)
\* _emit_filtered_stick: the jitter memory afterwards and the writes.
emit_filtered_stick(mem, stick_name, raw_x, raw_y, out_x_code, out_y_code) ==
  With(filter_stick(raw_x, raw_y), LAMBDA f :
  With(suppress_jitter(mem, stick_name \o "_x", f[1]), LAMBDA sx :
  With(suppress_jitter(sx.mem, stick_name \o "_y", f[2]), LAMBDA sy :
    [last |-> sy.mem,
     writes |-> IF sx.changed \/ sy.changed
                THEN <<abs_event(out_x_code, sx.value),
                       abs_event(out_y_code, sy.value), syn_event>>
                ELSE <<>>])))

\* A trigger axis with the trigger deadzone left out.
emit_unfiltered_trigger(mem, key, value, out_code) ==
  With(suppress_jitter(mem, key, value), LAMBDA s :
    [last |-> s.mem,
     writes |-> IF s.changed THEN <<abs_event(out_code, s.value), syn_event>>
                ELSE <<>>])

\* A trigger axis: filter_trigger, suppress_jitter, emit on change.
emit_filtered_trigger(mem, key, value, out_code) ==
  With(suppress_jitter(mem, key, filter_trigger(value)), LAMBDA s :
    [last |-> s.mem,
     writes |-> IF s.changed THEN <<abs_event(out_code, s.value), syn_event>>
                ELSE <<>>])

\* _handle_button forwarding a code it does not know as it came.
handle_button_forwards_unknown(event) ==
  IF event.code \in DOMAIN BUTTON_MAP
  THEN <<key_event(BUTTON_MAP[event.code], event.value), syn_event>>
  ELSE <<key_event(event.code, event.value), syn_event>>

\* _handle_button: the writes.
handle_button(event) ==
  IF event.code \in DOMAIN BUTTON_MAP
  THEN <<key_event(BUTTON_MAP[event.code], event.value), syn_event>>
  ELSE IF event.code \in DOMAIN PADDLE_MAP
  THEN <<key_event(PADDLE_MAP[event.code], event.value), syn_event>>
  ELSE <<>>

\* The last branch of _handle_axis with the sync left out.
emit_passthrough_without_sync(code, value) == <<abs_event(AXIS_MAP[code], value)>>

\* The last branch of _handle_axis (the d-pad): the mapped code with the raw
\* value, then a sync.
emit_passthrough(code, value) == <<abs_event(AXIS_MAP[code], value), syn_event>>

\* _handle_event on the state st (the four raw readings and the jitter
\* memory): the state afterwards and the writes, in order.
handle_event(st, event) ==
  LET keep == [st EXCEPT !.writes = <<>>]
      code == event.code
      value == event.value
  IN CASE event.type = "EV_KEY" -> [keep EXCEPT !.writes = handle_button(event)]
       [] event.type = "EV_SYN" -> [keep EXCEPT !.writes = <<syn_event>>]
       [] event.type = "EV_ABS" ->
            IF code \notin DOMAIN AXIS_MAP THEN keep
            ELSE CASE code = "ABS_X" ->
                   LET r == emit_filtered_stick(st.last, "left", value, st.raw_left_y,
                                                "ABS_X", "ABS_Y")
                   IN [keep EXCEPT !.raw_left_x = value, !.last = r.last,
                                   !.writes = r.writes]
                 [] code = "ABS_Y" ->
                   LET r == emit_filtered_stick(st.last, "left", st.raw_left_x, value,
                                                "ABS_X", "ABS_Y")
                   IN [keep EXCEPT !.raw_left_y = value, !.last = r.last,
                                   !.writes = r.writes]
                 [] code = "ABS_Z" ->
                   LET r == emit_filtered_stick(st.last, "right", value, st.raw_right_y,
                                                "ABS_RX", "ABS_RY")
                   IN [keep EXCEPT !.raw_right_x = value, !.last = r.last,
                                   !.writes = r.writes]
                 [] code = "ABS_RZ" ->
                   LET r == emit_filtered_stick(st.last, "right", st.raw_right_x, value,
                                                "ABS_RX", "ABS_RY")
                   IN [keep EXCEPT !.raw_right_y = value, !.last = r.last,
                                   !.writes = r.writes]
                 [] code = "ABS_RX" ->
                   LET r == emit_filtered_trigger(st.last, "lt", value, "ABS_Z")
                   IN [keep EXCEPT !.last = r.last, !.writes = r.writes]
                 [] code = "ABS_RY" ->
                   LET r == emit_filtered_trigger(st.last, "rt", value, "ABS_RZ")
                   IN [keep EXCEPT !.last = r.last, !.writes = r.writes]
                 [] OTHER ->
                   [keep EXCEPT !.writes = emit_passthrough(code, value)]
       [] OTHER -> keep

filter_state ==
  [raw_left_x |-> raw_left_x, raw_left_y |-> raw_left_y,
   raw_right_x |-> raw_right_x, raw_right_y |-> raw_right_y,
   last |-> last, writes |-> <<>>]

set_filter_state(st) ==
  /\ raw_left_x' = st.raw_left_x
  /\ raw_left_y' = st.raw_left_y
  /\ raw_right_x' = st.raw_right_x
  /\ raw_right_y' = st.raw_right_y
  /\ last' = st.last

\* zero_frame with the two trigger axes forgotten.
zero_frame_sticks_only ==
  <<abs_event("ABS_X", 0), abs_event("ABS_Y", 0), abs_event("ABS_RX", 0),
    abs_event("ABS_RY", 0), syn_event>>

\* zero_frame with the sync left out.
zero_frame_without_sync ==
  <<abs_event("ABS_X", 0), abs_event("ABS_Y", 0), abs_event("ABS_RX", 0),
    abs_event("ABS_RY", 0), abs_event("ABS_Z", 0), abs_event("ABS_RZ", 0)>>

\* The frame _zero_virtual_outputs writes.
zero_frame ==
  <<abs_event("ABS_X", 0), abs_event("ABS_Y", 0), abs_event("ABS_RX", 0),
    abs_event("ABS_RY", 0), abs_event("ABS_Z", 0), abs_event("ABS_RZ", 0), syn_event>>

(************************ bridge.py: devices ******************************)
\* release_physical: every handle of the list is ungrabbed and dropped.
release_physical ==
  /\ grabbed_devices' = <<>>
  /\ physical' = None
  /\ UNCHANGED discovered

\* _open_devices giving up everything when one secondary fails.
open_devices_all_or_nothing(d, primary, secs_ok) ==
  LET all == primary = "ok"
             /\ \A i \in 1..Len(d.secondary_event_paths) :
                  d.secondary_event_paths[i] \in secs_ok
  IN /\ physical' = IF primary = "open_failed" THEN physical ELSE Primary
     /\ grabbed_devices' =
          IF all
          THEN grabbed_devices \o <<Primary>>
               \o [i \in 1..Len(d.secondary_event_paths) |->
                     Secondary(d.secondary_event_paths[i])]
          ELSE grabbed_devices

\* _open_devices on the discovery result d.  primary: "ok", or where the
\* primary failed ("open_failed": InputDevice() raised, "grab_failed": grab()
\* raised).  secs_ok: the secondaries whose open and grab succeed.
open_devices(d, primary, secs_ok) ==
  LET secs == SelectSeq(d.secondary_event_paths, LAMBDA p : p \in secs_ok)
  IN /\ physical' = IF primary = "open_failed" THEN physical ELSE Primary
     /\ grabbed_devices' =
          IF primary = "ok"
          THEN grabbed_devices \o <<Primary>> \o [i \in 1..Len(secs) |-> Secondary(secs[i])]
          ELSE grabbed_devices

SecondaryPaths(d) == {d.secondary_event_paths[i] : i \in 1..Len(d.secondary_event_paths)}

(************************ Init ********************************************)
\* After run() has discovered the controller and built the BridgeService:
\* reconnection is enabled for a wireless controller.
Init ==
  /\ pc = "idle"
  /\ running = FALSE
  /\ discovered \in DiscoveredDevice
  /\ reconnect = (discovered.connection_type = "wireless")
  /\ physical = None
  /\ grabbed_devices = <<>>
  /\ raw_left_x = 0 /\ raw_left_y = 0 /\ raw_right_x = 0 /\ raw_right_y = 0
  /\ last = EmptyMem
  /\ device = "none"
  /\ vabs = [c \in AXIS_INFO |-> 0]
  /\ unsynced = FALSE
  /\ emitted = <<>>
  /\ batch = <<>>
  /\ waited = 0
  /\ err = "none"
  /\ jitter_threshold = STICK_JITTER_THRESHOLD
  /\ sysfs = <<>>
  /\ calls = <<>>

(************************ start *******************************************)
\* start(): the handlers are installed and _running is set.
start ==
  /\ pc = "idle"
  /\ running' = TRUE
  /\ pc' = "create"
  /\ emitted' = <<>>
  /\ UNCHANGED <<reconnect, physical_vars, filter_vars, gamepad_vars, batch, waited, err>>
  /\ UNCHANGED unit_vars

\* gamepad.create(): UInput() succeeds, or raises and start()'s finally runs.
gamepad_create ==
  /\ pc = "create"
  /\ \/ device' = "open" /\ pc' = "open_devices"
     \/ device' = device /\ pc' = "cleanup"
  /\ emitted' = <<>>
  /\ UNCHANGED <<running, reconnect, physical_vars, filter_vars, vabs, unsynced,
                 batch, waited, err>>
  /\ UNCHANGED unit_vars

\* _open_devices() at startup: a failure on the primary ends start().
start_open_devices ==
  /\ pc = "open_devices"
  /\ \E primary \in {"ok", "open_failed", "grab_failed"} :
     \E secs_ok \in SUBSET SecondaryPaths(discovered) :
        /\ primary # "ok" => secs_ok = {}
        /\ open_devices(discovered, primary, secs_ok)
        /\ pc' = IF primary = "ok" THEN "run_loop" ELSE "cleanup"
  /\ emitted' = <<>>
  /\ UNCHANGED <<running, reconnect, discovered, filter_vars, gamepad_vars,
                 batch, waited, err>>
  /\ UNCHANGED unit_vars

(************************ _run_with_reconnect, _event_loop ****************)
\* while self._running: in _run_with_reconnect.
run_loop ==
  /\ pc = "run_loop"
  /\ pc' = IF running THEN "event_loop" ELSE "cleanup"
  /\ err' = IF running THEN "none" ELSE err
  /\ emitted' = <<>>
  /\ UNCHANGED <<running, reconnect, physical_vars, filter_vars, gamepad_vars,
                 batch, waited>>
  /\ UNCHANGED unit_vars

\* event_loop_continues never looking at the run flag.
event_loop_forever == TRUE

\* The event loop goes on while this holds.
event_loop_continues == running

\* while self._running: in _event_loop; leaving it is the clean exit.
event_loop ==
  /\ pc = "event_loop"
  /\ pc' = IF event_loop_continues THEN "poll" ELSE "cleanup"
  /\ emitted' = <<>>
  /\ UNCHANGED <<running, reconnect, physical_vars, filter_vars, gamepad_vars,
                 batch, waited, err>>
  /\ UNCHANGED unit_vars

\* poll.poll(POLL_TIMEOUT_MS) returns nothing.
poll_timeout ==
  /\ pc = "poll"
  /\ pc' = "event_loop"
  /\ emitted' = <<>>
  /\ UNCHANGED <<running, reconnect, physical_vars, filter_vars, gamepad_vars,
                 batch, waited, err>>
  /\ UNCHANGED unit_vars

\* self._physical.read() returns a batch of events.
read_events ==
  /\ pc = "poll"
  /\ batch' \in Batches
  /\ pc' = "drain"
  /\ emitted' = <<>>
  /\ UNCHANGED <<running, reconnect, physical_vars, filter_vars, gamepad_vars,
                 waited, err>>
  /\ UNCHANGED unit_vars

\* self._physical.read() raises OSError.
read_fails ==
  /\ pc = "poll"
  /\ err' = "read"
  /\ pc' = "except_oserror"
  /\ emitted' = <<>>
  /\ UNCHANGED <<running, reconnect, physical_vars, filter_vars, gamepad_vars,
                 batch, waited>>
  /\ UNCHANGED unit_vars

\* _handle_event on the next event of the batch, every write succeeding.
handle_next_event ==
  /\ pc = "drain"
  /\ batch # <<>>
  /\ \E r \in {handle_event(filter_state, Head(batch))} :
        /\ set_filter_state(r)
        /\ gamepad_emit(gamepad_writes(r.writes))
  /\ batch' = Tail(batch)
  /\ pc' = IF Tail(batch) = <<>> THEN "event_loop" ELSE "drain"
  /\ UNCHANGED <<running, reconnect, physical_vars, waited, err>>
  /\ UNCHANGED unit_vars

\* Where an OSError raised by a write to the emulated device inside
\* _handle_event lands: the except clause around the read loop.
write_error_lands == "except_oserror"

\* _handle_event on the next event, one of its writes raising OSError: the
\* writes before it are made, the rest of the batch is dropped.
handle_event_write_fails ==
  /\ pc = "drain"
  /\ batch # <<>>
  /\ \E r \in {handle_event(filter_state, Head(batch))} :
     \E ws \in {gamepad_writes(r.writes)} :
        /\ ws # <<>>
        /\ set_filter_state(r)
        /\ \E k \in 0..(Len(ws) - 1) : gamepad_emit(SubSeq(ws, 1, k))
  /\ batch' = <<>>
  /\ err' = "write"
  /\ pc' = write_error_lands
  /\ UNCHANGED <<running, reconnect, physical_vars, waited>>
  /\ UNCHANGED unit_vars

\* except OSError: if self._running: raise _DeviceDisconnected; otherwise
\* the error is dropped and the loop tests _running again.
except_oserror ==
  /\ pc = "except_oserror"
  /\ pc' = IF running THEN "disconnected" ELSE "event_loop"
  /\ emitted' = <<>>
  /\ UNCHANGED <<running, reconnect, physical_vars, filter_vars, gamepad_vars,
                 batch, waited, err>>
  /\ UNCHANGED unit_vars

\* disconnected destroying the emulated device together with the physical ones.
disconnected_destroys_gamepad ==
  /\ pc = "disconnected"
  /\ release_physical
  /\ device' = "closed"
  /\ pc' = "reconnect_check"
  /\ emitted' = <<>>
  /\ UNCHANGED <<running, reconnect, filter_vars, vabs, unsynced, batch, waited, err>>
  /\ UNCHANGED unit_vars

\* except _DeviceDisconnected: self._release_physical()
disconnected ==
  /\ pc = "disconnected"
  /\ release_physical
  /\ pc' = "reconnect_check"
  /\ emitted' = <<>>
  /\ UNCHANGED <<running, reconnect, filter_vars, gamepad_vars, batch, waited, err>>
  /\ UNCHANGED unit_vars

\* The bridge waits for the controller to come back.
reconnect_eligible == reconnect /\ running

\* if not self._reconnect or not self._running: break
reconnect_check ==
  /\ pc = "reconnect_check"
  /\ pc' = IF reconnect_eligible THEN "zero_outputs" ELSE "cleanup"
  /\ emitted' = <<>>
  /\ UNCHANGED <<running, reconnect, physical_vars, filter_vars, gamepad_vars,
                 batch, waited, err>>
  /\ UNCHANGED unit_vars

\* _zero_virtual_outputs(), every write succeeding; _wait_for_reconnect
\* starts with waited = 0.
zero_virtual_outputs ==
  /\ pc = "zero_outputs"
  /\ gamepad_emit(gamepad_writes(zero_frame))
  /\ raw_left_x' = 0 /\ raw_left_y' = 0 /\ raw_right_x' = 0 /\ raw_right_y' = 0
  /\ last' = last
  /\ waited' = 0
  /\ pc' = "wait_loop"
  /\ UNCHANGED <<running, reconnect, physical_vars, batch, err>>
  /\ UNCHANGED unit_vars

\* _zero_virtual_outputs(), one of its writes raising OSError: the error
\* leaves the except clause it was raised in and start()'s finally runs.
zero_virtual_outputs_fails ==
  /\ pc = "zero_outputs"
  /\ LET ws == gamepad_writes(zero_frame)
     IN /\ ws # <<>>
        /\ \E k \in 0..(Len(ws) - 1) : gamepad_emit(SubSeq(ws, 1, k))
  /\ err' = "write"
  /\ pc' = "cleanup"
  /\ UNCHANGED <<running, reconnect, physical_vars, filter_vars, batch, waited>>
  /\ UNCHANGED unit_vars

(************************ _wait_for_reconnect *****************************)
\* wait_continues with the comparison off by one.
wait_continues_inclusive(w) == running /\ w <= max_wait

\* The wait goes on while this holds.
wait_continues(w) == running /\ w < max_wait

\* while self._running and waited < max_wait: leaving the loop returns False.
wait_loop ==
  /\ pc = "wait_loop"
  /\ IF wait_continues(waited)
     THEN pc' = "sleep" /\ waited' = waited
     ELSE pc' = "cleanup" /\ waited' = 0
  /\ emitted' = <<>>
  /\ UNCHANGED <<running, reconnect, physical_vars, filter_vars, gamepad_vars,
                 batch, err>>
  /\ UNCHANGED unit_vars

\* time.sleep(poll_interval); waited += poll_interval
sleep ==
  /\ pc = "sleep"
  /\ waited' = waited + poll_interval
  /\ pc' = "discover"
  /\ emitted' = <<>>
  /\ UNCHANGED <<running, reconnect, physical_vars, filter_vars, gamepad_vars,
                 batch, err>>
  /\ UNCHANGED unit_vars

\* discover_scuf() finds nothing.
discover_nothing ==
  /\ pc = "discover"
  /\ pc' = "wait_loop"
  /\ emitted' = <<>>
  /\ UNCHANGED <<running, reconnect, physical_vars, filter_vars, gamepad_vars,
                 batch, waited, err>>
  /\ UNCHANGED unit_vars

\* after_attempt giving the reconnection up at the first failed acquisition.
after_attempt_aborts(primary) == IF primary = "ok" THEN "run_loop" ELSE "cleanup"

\* after_attempt taking every attempt for a success.
after_attempt_always_resumes(primary) == "run_loop"

\* Where a reconnection attempt goes: back to the event loop when the
\* primary was acquired, to the next attempt otherwise.
after_attempt(primary) == IF primary = "ok" THEN "run_loop" ELSE "wait_loop"

\* discover_scuf() finds the controller: self.discovered is replaced and
\* _open_devices() runs; success returns True, OSError continues the loop.
discover_and_open ==
  /\ pc = "discover"
  /\ \E d \in DiscoveredDevice :
     \E primary \in {"ok", "open_failed", "grab_failed"} :
     \E secs_ok \in SUBSET SecondaryPaths(d) :
        /\ primary # "ok" => secs_ok = {}
        /\ discovered' = d
        /\ open_devices(d, primary, secs_ok)
        /\ pc' = after_attempt(primary)
        /\ waited' = IF primary = "ok" THEN 0 ELSE waited
  /\ emitted' = <<>>
  /\ UNCHANGED <<running, reconnect, filter_vars, gamepad_vars, batch, err>>
  /\ UNCHANGED unit_vars

(************************ _cleanup ****************************************)
\* cleanup going on to close the emulated device with nothing released.
cleanup_without_release ==
  /\ pc = "cleanup"
  /\ pc' = "close"
  /\ emitted' = <<>>
  /\ UNCHANGED <<running, reconnect, physical_vars, filter_vars, gamepad_vars,
                 batch, waited, err>>
  /\ UNCHANGED unit_vars

\* _cleanup(): self._release_physical()
cleanup ==
  /\ pc = "cleanup"
  /\ release_physical
  /\ pc' = "close"
  /\ emitted' = <<>>
  /\ UNCHANGED <<running, reconnect, filter_vars, gamepad_vars, batch, waited, err>>
  /\ UNCHANGED unit_vars

\* _cleanup(): self.gamepad.close()
gamepad_close ==
  /\ pc = "close"
  /\ device' = VirtualGamepad_close(device).device
  /\ pc' = "stopped"
  /\ emitted' = <<>>
  /\ UNCHANGED <<running, reconnect, physical_vars, filter_vars, vabs, unsynced,
                 batch, waited, err>>
  /\ UNCHANGED unit_vars

(************************ _signal_handler *********************************)
\* SIGINT or SIGTERM while the bridge runs.
signal_handler ==
  /\ pc \notin {"idle", "stopped"}
  /\ running
  /\ running' = FALSE
  /\ UNCHANGED <<pc, reconnect, physical_vars, filter_vars, gamepad_vars, emitted,
                 batch, waited, err>>
  /\ UNCHANGED unit_vars

(************************ specification ***********************************)
BridgeNext ==
  \/ start
  \/ gamepad_create
  \/ start_open_devices
  \/ run_loop
  \/ event_loop
  \/ poll_timeout
  \/ read_events
  \/ read_fails
  \/ handle_next_event
  \/ handle_event_write_fails
  \/ except_oserror
  \/ disconnected
  \/ reconnect_check
  \/ zero_virtual_outputs
  \/ zero_virtual_outputs_fails
  \/ wait_loop
  \/ sleep
  \/ discover_nothing
  \/ discover_and_open
  \/ cleanup
  \/ gamepad_close

Next == BridgeNext \/ signal_handler

Spec == Init /\ [][Next]_vars

\* The bridge thread is never suspended for good: poll() and sleep() are
\* bounded and a batch is finite.
FairSpec == Spec /\ WF_vars(BridgeNext)

(************************ components taken alone **************************)
bridge_vars == <<pc, running, reconnect, discovered, physical, grabbed_devices,
                 batch, waited, err>>

\* No bridge session: run() has not built a BridgeService.
NoBridge ==
  /\ pc = "idle"
  /\ running = FALSE
  /\ reconnect = FALSE
  /\ discovered = [connection_type |-> "wired", secondary_event_paths |-> <<>>]
  /\ physical = None
  /\ grabbed_devices = <<>>
  /\ batch = <<>>
  /\ waited = 0
  /\ err = "none"

\* InputFilter.__init__, but for the threshold.
NewInputFilter ==
  /\ raw_left_x = 0 /\ raw_left_y = 0 /\ raw_right_x = 0 /\ raw_right_y = 0
  /\ last = EmptyMem

\* VirtualGamepad.__init__
NewVirtualGamepad ==
  /\ device = "none"
  /\ vabs = [c \in AXIS_INFO |-> 0]
  /\ unsynced = FALSE
  /\ emitted = <<>>

(************************ discovery.py *************************************)
\* An entry of /sys/class/input is a record: number (the N of eventN),
\* vendor and product (device/id/), has_js (device/ holds a js* entry),
\* dev_node (/dev/input/eventN exists), and what opening the node and
\* reading its capabilities gives: readable, capabilities.

\* _event_number of an entry named eventN.
event_number(d) == d.number

\* The enumeration left in the order glob() listed it.
as_globbed(dirs) == dirs

RECURSIVE sorted_by_event_number(_)
\* sorted(dirs, key=_event_number): ascending, entries of equal key in their
\* order of arrival.
sorted_by_event_number(dirs) ==
  IF dirs = <<>> THEN <<>>
  ELSE LET i == CHOOSE i \in 1..Len(dirs) : \A j \in 1..Len(dirs) :
                  \/ event_number(dirs[i]) < event_number(dirs[j])
                  \/ event_number(dirs[i]) = event_number(dirs[j]) /\ i <= j
       IN <<dirs[i]>> \o sorted_by_event_number(SubSeq(dirs, 1, i - 1) \o
                                                SubSeq(dirs, i + 1, Len(dirs)))

target_pids == {SCUF_PRODUCT_ID_WIRED, SCUF_PRODUCT_ID_RECEIVER}

\* The test an entry passes to enter matching_events: the identifiers match
\* and _find_event_node finds its device node.
is_matching_event(d) ==
  d.vendor = SCUF_VENDOR_ID /\ d.product \in target_pids /\ d.dev_node

matching_events(dirs) == SelectSeq(sorted_by_event_number(dirs), is_matching_event)

\* /dev/input/eventN, as N.
event_path(d) == d.number

event_paths(m) == [i \in 1..Len(m) |-> event_path(m[i])]

gamepad_buttons ==
  {"BTN_SOUTH", "BTN_EAST", "BTN_NORTH", "BTN_WEST", "BTN_C", "BTN_Z",
   "BTN_TL", "BTN_TR", "BTN_TL2", "BTN_TR2"}

\* _has_gamepad_capabilities: False when the node cannot be opened.
has_gamepad_capabilities(d) ==
  IF ~d.readable THEN FALSE
  ELSE IF "EV_ABS" \notin DOMAIN d.capabilities \/ "EV_KEY" \notin DOMAIN d.capabilities
  THEN FALSE
  ELSE IF "ABS_X" \notin d.capabilities["EV_ABS"] \/ "ABS_Y" \notin d.capabilities["EV_ABS"]
  THEN FALSE
  ELSE IF d.capabilities["EV_KEY"] \cap gamepad_buttons = {} THEN FALSE
  ELSE TRUE

\* Strategy 1: the index in m of the first entry with a js* sibling, 0 when
\* there is none.
strategy1(m) ==
  LET S == {i \in 1..Len(m) : m[i].has_js}
  IN IF S = {} THEN 0 ELSE CHOOSE i \in S : \A j \in S : i <= j

\* Strategy 2 with its break missing: the last capable entry wins.
strategy2_without_break(m) ==
  LET S == {i \in 1..Len(m) : has_gamepad_capabilities(m[i])}
  IN IF S = {} THEN 0 ELSE CHOOSE i \in S : \A j \in S : i >= j

\* Strategy 2: the index in m of the first entry with gamepad capabilities,
\* 0 when there is none.
strategy2(m) ==
  LET S == {i \in 1..Len(m) : has_gamepad_capabilities(m[i])}
  IN IF S = {} THEN 0 ELSE CHOOSE i \in S : \A j \in S : i <= j

\* The secondary list Strategy 1's loop builds when entry p is its primary
\* (p = 0: no primary, every entry is appended).
secondary_after_strategy1(m, p) ==
  [i \in 1..(Len(m) - (IF p = 0 THEN 0 ELSE 1)) |->
     event_path(m[IF p = 0 \/ i < p THEN i ELSE i + 1])]

\* Strategy 2 keeping the list Strategy 1's loop built.
secondary_kept_from_strategy1(m, p) == secondary_after_strategy1(m, 0)

\* The secondary list Strategy 2 builds when entry p is its primary.
secondary_after_strategy2(m, p) ==
  SelectSeq(event_paths(m), LAMBDA e : e # event_path(m[p]))

\* The connection type taken from the whole scan (wireless_count).
connection_type_of_any(m, primary) ==
  IF \E i \in 1..Len(m) : m[i].product = SCUF_PRODUCT_ID_RECEIVER
  THEN "wireless" ELSE "wired"

\* conn_type: from the product id of the first entry whose path is the primary's.
connection_type(m, primary) ==
  LET S == {i \in 1..Len(m) : event_path(m[i]) = primary}
  IN IF S = {} THEN "wired"
     ELSE LET i == CHOOSE i \in S : \A j \in S : i <= j
          IN IF m[i].product = SCUF_PRODUCT_ID_RECEIVER THEN "wireless" ELSE "wired"

\* discover_scuf() returning None.
NotFound ==
  [found |-> FALSE, event_path |-> 0, secondary_event_paths |-> <<>>,
   connection_type |-> "wired"]

found_device(m, p, secondary) ==
  [found |-> TRUE, event_path |-> event_path(m[p]), secondary_event_paths |-> secondary,
   connection_type |-> connection_type(m, event_path(m[p]))]

\* discover_scuf() over the enumeration dirs (the raw-HID sibling is left out).
discover_scuf(dirs) ==
  LET m == matching_events(dirs)
  IN IF m = <<>> THEN NotFound
     ELSE IF strategy1(m) # 0
     THEN found_device(m, strategy1(m), secondary_after_strategy1(m, strategy1(m)))
     ELSE IF strategy2(m) # 0
     THEN found_device(m, strategy2(m), secondary_after_strategy2(m, strategy2(m)))
     ELSE found_device(m, 1, Tail(event_paths(m)))

\* The nodes discover_scuf() opens to read their capabilities, in order.
capabilities_probed(dirs) ==
  LET m == matching_events(dirs)
  IN IF m = <<>> \/ strategy1(m) # 0 THEN <<>>
     ELSE IF strategy2(m) # 0 THEN SubSeq(event_paths(m), 1, strategy2(m))
     ELSE event_paths(m)

(************************ discovery taken alone ****************************)
\* What opening a node and reading its capabilities can give.
Gamepad ==
  [readable |-> TRUE,
   capabilities |-> [t \in {"EV_KEY", "EV_ABS"} |->
                       IF t = "EV_KEY" THEN {"BTN_SOUTH", "BTN_C", "BTN_MODE"}
                       ELSE {"ABS_X", "ABS_Y", "ABS_Z"}]]
ConsumerControl ==
  [readable |-> TRUE, capabilities |-> [t \in {"EV_KEY"} |-> {"KEY_VOLUMEUP"}]]
GuideButtonOnly ==
  [readable |-> TRUE,
   capabilities |-> [t \in {"EV_KEY", "EV_ABS"} |->
                       IF t = "EV_KEY" THEN {"BTN_MODE"} ELSE {"ABS_X", "ABS_Y"}]]
OneAxis ==
  [readable |-> TRUE,
   capabilities |-> [t \in {"EV_KEY", "EV_ABS"} |->
                       IF t = "EV_KEY" THEN {"BTN_SOUTH"} ELSE {"ABS_X"}]]
Unreadable == [readable |-> FALSE, capabilities |-> [t \in {} |-> {}]]

node(number, vendor, product, has_js, dev_node, caps) ==
  [number |-> number, vendor |-> vendor, product |-> product, has_js |-> has_js,
   dev_node |-> dev_node, readable |-> caps.readable, capabilities |-> caps.capabilities]

\* The entries an enumeration is made of: the controller's interfaces under
\* either product id, with or without a js* sibling, of every capability
\* profile; such an interface whose device node is not there yet; the
\* bridge's own emulated gamepad; another gamepad of the same vendor.
Nodes(number) ==
  {node(number, SCUF_VENDOR_ID, pid, js, TRUE, caps) :
     pid \in target_pids, js \in BOOLEAN,
     caps \in {Gamepad, ConsumerControl, GuideButtonOnly, OneAxis, Unreadable}}
  \cup {node(number, SCUF_VENDOR_ID, pid, TRUE, FALSE, Unreadable) : pid \in target_pids}
  \cup {node(number, VIRTUAL_VENDOR, VIRTUAL_PRODUCT, TRUE, TRUE, Gamepad),
        node(number, SCUF_VENDOR_ID, VIRTUAL_PRODUCT, TRUE, TRUE, Gamepad)}

\* Every listing of at most MaxNodes entries with distinct numbers, in every order.
Enumerations ==
  UNION {{dirs \in [1..n -> UNION {Nodes(k) : k \in 1..MaxNodes}] :
            \A i, j \in 1..n : i # j => dirs[i].number # dirs[j].number} :
         n \in 0..MaxNodes}

DiscoveryInit ==
  /\ NoBridge
  /\ NewInputFilter
  /\ jitter_threshold = STICK_JITTER_THRESHOLD
  /\ NewVirtualGamepad
  /\ sysfs \in Enumerations
  /\ calls = <<>>

\* One discovery pass.
Call_discover_scuf ==
  /\ calls = <<>>
  /\ calls' = <<[op |-> "discover_scuf", ret |-> discover_scuf(sysfs),
                 probed |-> capabilities_probed(sysfs)]>>
  /\ UNCHANGED <<bridge_vars, filter_vars, gamepad_vars, emitted, jitter_threshold, sysfs>>

DiscoveryNext == Call_discover_scuf

DiscoverySpec == DiscoveryInit /\ [][DiscoveryNext]_vars

(************************ VirtualGamepad taken alone **********************)
GamepadInit ==
  /\ NoBridge
  /\ NewInputFilter
  /\ jitter_threshold = STICK_JITTER_THRESHOLD
  /\ NewVirtualGamepad
  /\ sysfs = <<>>
  /\ calls = <<>>

\* create(): UInput() gives a new device, every axis at its initial value 0
\* (a device the publisher held before is no longer referenced), or raises.
Call_create ==
  /\ Len(calls) < MaxGamepadCalls
  /\ \/ /\ device' = "open"
        /\ vabs' = [c \in AXIS_INFO |-> 0]
        /\ unsynced' = FALSE
        /\ calls' = Append(calls, [op |-> "create", raised |-> FALSE])
     \/ /\ UNCHANGED gamepad_vars
        /\ calls' = Append(calls, [op |-> "create", raised |-> TRUE])
  /\ emitted' = <<>>
  /\ UNCHANGED <<bridge_vars, filter_vars, jitter_threshold, sysfs>>

\* emit_button, emit_axis or syn (op) writing event: the write is made when
\* a device exists, and may then raise OSError; nothing happens otherwise.
Call_emit(op, event) ==
  /\ Len(calls) < MaxGamepadCalls
  /\ \/ /\ gamepad_emit(gamepad_writes(<<event>>))
        /\ calls' = Append(calls, [op |-> op, raised |-> FALSE])
     \/ /\ gamepad_writes(<<event>>) # <<>>
        /\ UNCHANGED gamepad_vars
        /\ emitted' = <<>>
        /\ calls' = Append(calls, [op |-> op, raised |-> TRUE])
  /\ UNCHANGED <<bridge_vars, filter_vars, jitter_threshold, sysfs>>

Call_emit_button ==
  \E value \in {0, 1} : Call_emit("emit_button", key_event("BTN_SOUTH", value))

Call_emit_axis ==
  \E value \in {0, 1023} : Call_emit("emit_axis", abs_event("ABS_Z", value))

Call_syn == Call_emit("syn", syn_event)

\* close()
Call_close ==
  /\ Len(calls) < MaxGamepadCalls
  /\ \E r \in {VirtualGamepad_close(device)} :
        /\ device' = r.device
        /\ calls' = Append(calls, [op |-> "close", raised |-> r.raised])
  /\ emitted' = <<>>
  /\ UNCHANGED <<vabs, unsynced, bridge_vars, filter_vars, jitter_threshold, sysfs>>

GamepadNext ==
  \/ Call_create
  \/ Call_emit_button
  \/ Call_emit_axis
  \/ Call_syn
  \/ Call_close

GamepadSpec == GamepadInit /\ [][GamepadNext]_vars

(************************ the mapping tables taken alone *******************)
\* The raw events whose code one of the tables maps.
MappedEvents ==
  {key_event(c, 1) : c \in DOMAIN BUTTON_MAP \cup DOMAIN PADDLE_MAP}
  \cup {abs_event(c, 0) : c \in DOMAIN AXIS_MAP}

MappingInit ==
  /\ NoBridge
  /\ NewInputFilter
  /\ jitter_threshold = STICK_JITTER_THRESHOLD
  /\ NewVirtualGamepad
  /\ sysfs = <<>>
  /\ calls = <<>>

\* The name of the code the handlers look up for a raw event: _handle_button
\* consults BUTTON_MAP, then PADDLE_MAP; _handle_axis consults AXIS_MAP.
mapped(event) ==
  IF event.type = "EV_KEY" THEN handle_button(event)[1].code
  ELSE AXIS_MAP[event.code]

\* One lookup: the event's numeric code and the numeric code it maps to.
Call_lookup ==
  /\ Len(calls) < 2
  /\ \E event \in MappedEvents :
        calls' = Append(calls, [op |-> "lookup", type |-> event.type,
                                code |-> ecodes[event.code],
                                mapped |-> ecodes[mapped(event)]])
  /\ UNCHANGED <<bridge_vars, filter_vars, gamepad_vars, emitted, jitter_threshold, sysfs>>

MappingNext == Call_lookup

MappingSpec == MappingInit /\ [][MappingNext]_vars

(************************ InputFilter taken alone **************************)
JitterInit ==
  /\ NoBridge
  /\ NewInputFilter
  /\ jitter_threshold \in 1..MaxJitterThreshold
  /\ NewVirtualGamepad
  /\ sysfs = <<>>
  /\ calls = <<>>

\* suppress_jitter(key, new_value): what it returned and the memory it left.
Call_suppress_jitter ==
  /\ Len(calls) < MaxJitterCalls
  /\ \E key \in {"lt", "rt"} :
     \E new_value \in (-MaxJitterValue)..MaxJitterValue :
     \E r \in {suppress_jitter(last, key, new_value)} :
        /\ last' = r.mem
        /\ calls' = Append(calls, [op |-> "suppress_jitter", key |-> key,
                                   new_value |-> new_value, value |-> r.value,
                                   changed |-> r.changed, last |-> r.mem])
  /\ UNCHANGED <<bridge_vars, raw_left_x, raw_left_y, raw_right_x, raw_right_y,
                 gamepad_vars, emitted, jitter_threshold, sysfs>>

JitterNext == Call_suppress_jitter

JitterSpec == JitterInit /\ [][JitterNext]_vars

(************************ the filter and the handlers taken alone *********)
\* Raw stick values at which filter_stick changes its behaviour: the ends of
\* the range, the deadzone circle (3500 on an axis, 2100 with 2800, 2475 with
\* 2475 just outside and with 2474 just inside) and the neighbours of each.
StickSamples ==
  {STICK_MIN, -STICK_MAX, -23170, -(STICK_DEADZONE + 1), -STICK_DEADZONE,
   -2800, -2475, -2100, -1, 0, 1, 2100, 2474, 2475, 2800, STICK_DEADZONE - 1,
   STICK_DEADZONE, STICK_DEADZONE + 1, 23170, STICK_MAX - 1, STICK_MAX}

\* The raw events the handlers are fed.  The stick values keep every latched
\* pair at an integral magnitude: 0, 3000 and 4000 on the left stick (3000 is
\* inside the deadzone, 3000 with 4000 is 5000), one axis of the right stick.
HandlerEvents ==
  {key_event("BTN_SOUTH", v) : v \in {0, 1, 2}}
  \cup {key_event(c, 1) : c \in {"BTN_C", "BTN_TRIGGER_HAPPY1"}}
  \cup {key_event(c, v) : c \in {"BTN_THUMBL", "BTN_DPAD_UP"}, v \in {0, 1}}
  \cup {abs_event("ABS_X", v) : v \in {0, 3000}}
  \cup {abs_event("ABS_Y", v) : v \in {0, 4000}}
  \cup {abs_event("ABS_Z", v) : v \in {0, STICK_DEADZONE + 1, STICK_MAX}}
  \cup {abs_event("ABS_RZ", 0)}
  \cup {abs_event("ABS_RX", v) : v \in {5, 12, 100}}
  \cup {abs_event("ABS_RY", v) : v \in {12, 100}}
  \cup {abs_event("ABS_HAT0X", v) : v \in {-1, 0}}
  \cup {abs_event("ABS_HAT0Y", 1), abs_event("ABS_THROTTLE", 7)}
  \cup {syn_event, [type |-> "EV_MSC", code |-> "MSC_SCAN", value |-> 0]}

\* A new filter with the default thresholds and a created emulated device,
\* every axis at its initial value.
FilterInit ==
  /\ NoBridge
  /\ NewInputFilter
  /\ jitter_threshold = STICK_JITTER_THRESHOLD
  /\ device = "open"
  /\ vabs = [c \in AXIS_INFO |-> 0]
  /\ unsynced = FALSE
  /\ emitted = <<>>
  /\ sysfs = <<>>
  /\ calls = <<>>

\* filter_stick(x, y) on a new filter: the reading and what it returned.
Call_filter_stick ==
  /\ calls = <<>>
  /\ \E x \in StickSamples, y \in StickSamples :
     \E value \in filter_stick_results(x, y) :
        calls' = <<[op |-> "filter_stick", x |-> x, y |-> y, value |-> value]>>
  /\ UNCHANGED <<bridge_vars, filter_vars, gamepad_vars, emitted, jitter_threshold, sysfs>>

\* _handle_event(event): calls keeps the latest call, its number n, the
\* filter state it found and the writes it made.
Call_handle_event ==
  /\ IF calls = <<>> THEN TRUE
     ELSE calls[1].op \in {"handle_event", "zero_virtual_outputs"}
          /\ calls[1].n < MaxHandlerCalls
  /\ \E event \in HandlerEvents :
     \E r \in {handle_event(filter_state, event)} :
        /\ set_filter_state(r)
        /\ gamepad_emit(gamepad_writes(r.writes))
        /\ calls' = <<[op |-> "handle_event", event |-> event,
                       n |-> IF calls = <<>> THEN 1 ELSE calls[1].n + 1,
                       before |-> filter_state, writes |-> r.writes]>>
  /\ UNCHANGED <<bridge_vars, jitter_threshold, sysfs>>

\* _zero_virtual_outputs() before or between raw events: the frame is written
\* and the four raw readings are reset; calls keeps it as the latest call.
Call_zero_virtual_outputs ==
  /\ IF calls = <<>> THEN TRUE
     ELSE calls[1].op \in {"handle_event", "zero_virtual_outputs"}
          /\ calls[1].n < MaxHandlerCalls
  /\ gamepad_emit(gamepad_writes(zero_frame))
  /\ raw_left_x' = 0 /\ raw_left_y' = 0 /\ raw_right_x' = 0 /\ raw_right_y' = 0
  /\ last' = last
  /\ calls' = <<[op |-> "zero_virtual_outputs",
                 n |-> IF calls = <<>> THEN 1 ELSE calls[1].n + 1,
                 before |-> filter_state, writes |-> gamepad_writes(zero_frame)]>>
  /\ UNCHANGED <<bridge_vars, jitter_threshold, sysfs>>

FilterNext == Call_filter_stick \/ Call_handle_event \/ Call_zero_virtual_outputs

FilterSpec == FilterInit /\ [][FilterNext]_vars

(************************ _open_devices and _release_physical taken alone **)
\* The devices on which InputDevice() returned a handle in _open_devices:
\* the primary unless its open failed, and the secondaries whose open
\* succeeded, grabbed (secs_ok) or not (secs_grab_failed).
opened_by_open_devices(primary, secs_ok, secs_grab_failed) ==
  (IF primary = "open_failed" THEN {} ELSE {Primary})
  \cup {Secondary(p) : p \in secs_ok \cup secs_grab_failed}

\* The devices whose handle _release_physical closes: ungrab() and close()
\* share one try, so close() is reached only when ungrab() did not raise.
closed_by_release(held, ungrab_fails) ==
  {held[i] : i \in 1..Len(held)} \ ungrab_fails

\* The handles of the call numbered n on the devices devs.
Handles(devs, n) == {[dev |-> h, n |-> n] : h \in devs}

\* A bridge that has discovered the controller and holds nothing.
DevicesInit ==
  /\ pc = "idle"
  /\ running = FALSE
  /\ discovered \in DiscoveredDevice
  /\ reconnect = FALSE
  /\ physical = None
  /\ grabbed_devices = <<>>
  /\ batch = <<>>
  /\ waited = 0
  /\ err = "none"
  /\ NewInputFilter
  /\ jitter_threshold = STICK_JITTER_THRESHOLD
  /\ NewVirtualGamepad
  /\ sysfs = <<>>
  /\ calls = <<>>

\* The number of the latest call, the handles left open after it, the
\* number of the latest _open_devices and the number of the call that opened
\* the handle self._physical refers to.
CallNumber == IF calls = <<>> THEN 0 ELSE calls[1].n
OpenHandles == IF calls = <<>> THEN {} ELSE calls[1].open
Generation == IF calls = <<>> THEN 0 ELSE calls[1].gen
PhysicalGeneration == IF calls = <<>> THEN 0 ELSE calls[1].phys_gen

\* The handles the bridge refers to: those of the list held, opened by call
\* gen, and self._physical, opened by call phys_gen.
referenced(held, gen, phys, phys_gen) ==
  Handles({held[i] : i \in 1..Len(held)}, gen) \cup Handles({phys} \ {None}, phys_gen)

\* _open_devices(), which the bridge calls with nothing held.  A handle that
\* was never closed and is no longer referred to stays open or is closed by
\* its finalizer, as the interpreter decides.
Call_open_devices ==
  /\ CallNumber < MaxDeviceCalls
  /\ grabbed_devices = <<>>
  /\ \E primary \in {"ok", "open_failed", "grab_failed"} :
     \E secs_ok \in SUBSET SecondaryPaths(discovered) :
     \E secs_grab_failed \in SUBSET (SecondaryPaths(discovered) \ secs_ok) :
        /\ primary # "ok" => secs_ok = {} /\ secs_grab_failed = {}
        /\ open_devices(discovered, primary, secs_ok)
        /\ LET n == CallNumber + 1
               new == Handles(opened_by_open_devices(primary, secs_ok, secs_grab_failed), n)
               phys_gen == IF primary = "open_failed" THEN PhysicalGeneration ELSE n
               kept == referenced(grabbed_devices', n, physical', phys_gen)
           IN \E collected \in SUBSET ((OpenHandles \cup new) \ kept) :
                calls' = <<[op |-> "open_devices", n |-> n, gen |-> n,
                            phys_gen |-> phys_gen, raised |-> primary # "ok",
                            open |-> (OpenHandles \cup new) \ collected]>>
  /\ UNCHANGED <<pc, running, reconnect, discovered, batch, waited, err,
                 filter_vars, gamepad_vars, emitted, jitter_threshold, sysfs>>

\* _release_physical(): each handle of the list is ungrabbed, which may
\* raise OSError, and closed; the list is cleared and self._physical dropped.
Call_release_physical ==
  /\ CallNumber < MaxDeviceCalls
  /\ \E ungrab_fails \in SUBSET {grabbed_devices[i] : i \in 1..Len(grabbed_devices)} :
       LET closed == Handles(closed_by_release(grabbed_devices, ungrab_fails), Generation)
       IN \E collected \in SUBSET (OpenHandles \ closed) :
            calls' = <<[op |-> "release_physical", n |-> CallNumber + 1,
                        gen |-> Generation, phys_gen |-> 0, raised |-> FALSE,
                        open |-> (OpenHandles \ closed) \ collected]>>
  /\ release_physical
  /\ UNCHANGED <<pc, running, reconnect, batch, waited, err,
                 filter_vars, gamepad_vars, emitted, jitter_threshold, sysfs>>

DevicesNext == Call_open_devices \/ Call_release_physical

DevicesSpec == DevicesInit /\ [][DevicesNext]_vars

(************************ the bridge's states ******************************)
Running == {"event_loop", "poll", "drain", "except_oserror"}
Disconnected == {"disconnected", "reconnect_check", "zero_outputs"}
Reconnecting == {"wait_loop", "sleep", "discover"}
ShuttingDown == {"cleanup", "close"}

AnalogAxes == {"ABS_X", "ABS_Y", "ABS_RX", "ABS_RY", "ABS_Z", "ABS_RZ"}

\* ws is one frame that sets each of the six analog axes to 0, then one sync.
IsZeroFrame(ws) ==
  /\ Len(ws) = 7
  /\ \A i \in 1..6 : ws[i].type = "EV_ABS" /\ ws[i].value = 0
  /\ {ws[i].code : i \in 1..6} = AnalogAxes
  /\ ws[7] = syn_event

AllAxesNeutral == (\A a \in AnalogAxes : vabs[a] = 0) /\ ~unsynced

NoPhysicalHeld == grabbed_devices = <<>> /\ physical = None

JustEnteredReconnecting == pc = "wait_loop" /\ waited = 0

(************************ C1 **********************************************)
C1_StateOnDisconnect ==
  /\ pc \in {"reconnect_check", "zero_outputs"} => NoPhysicalHeld /\ emitted = <<>>
  /\ pc = "zero_outputs" => device = "open"
  /\ JustEnteredReconnecting =>
       NoPhysicalHeld /\ IsZeroFrame(emitted) /\ AllAxesNeutral /\ device = "open"
  /\ (pc \in Reconnecting /\ ~JustEnteredReconnecting) => emitted = <<>>

C1_StepOnDisconnect ==
  (running /\ reconnect /\ pc' # pc) =>
     /\ pc = "except_oserror" /\ err = "read" => pc' = "disconnected"
     /\ pc = "disconnected" => pc' = "reconnect_check"
     /\ pc = "reconnect_check" => pc' = "zero_outputs"
     /\ pc = "zero_outputs" =>
          \/ pc' = "wait_loop" /\ waited' = 0
          \/ pc' = "cleanup" /\ Len(emitted') < 7

\* C1: after a read failure on the primary, with reconnection enabled and no
\* cancellation, the bridge releases every physical device, then emits one
\* frame (the six analog axes at 0, one sync) and nothing else, keeps the
\* emulated device open, and enters Reconnecting; the only other way on is
\* a failing write of that frame, which ends the session.
C1_DisconnectZeroesOnceAndReconnects ==
  []C1_StateOnDisconnect /\ [][C1_StepOnDisconnect]_vars

C1_Witness ==
  JustEnteredReconnecting /\ err = "read" /\ running /\ IsZeroFrame(emitted)

(************************ C2 **********************************************)
\* C2: after a read failure on the primary that no cancellation followed,
\* whether or not reconnection is enabled, the six analog axes of the
\* emulated device are 0 and synchronized once the bridge is Reconnecting or
\* ShuttingDown.
C2_ZeroedAfterEveryReadFailure ==
  (err = "read" /\ running /\ pc \in Reconnecting \cup ShuttingDown) => AllAxesNeutral

(************************ C3 **********************************************)
C3_StateAtShutdown ==
  /\ pc = "stopped" => NoPhysicalHeld /\ device # "open"
  /\ device = "closed" => NoPhysicalHeld /\ pc = "stopped"
  /\ device # "open" => emitted = <<>>
  /\ pc \notin {"idle", "stopped"} => ENABLED BridgeNext

C3_StepAtShutdown ==
  /\ (pc' = "stopped" /\ pc # "stopped") => pc = "close" /\ NoPhysicalHeld
  /\ (pc' = "close" /\ pc # "close") => pc = "cleanup"
  /\ device # "open" /\ device' # "open" => vabs' = vabs /\ unsynced' = unsynced

\* C3: a started session ends only through the shutdown sequence, which
\* every state of the session can still reach by a step of the bridge; the
\* physical devices are released before the emulated device is destroyed,
\* and nothing is written to the emulated device once it is destroyed.
C3_ShutdownReleasesThenDestroys ==
  []C3_StateAtShutdown /\ [][C3_StepAtShutdown]_vars

C3_Witness == pc = "stopped" /\ device = "closed" /\ err = "write" /\ running

(************************ C4 **********************************************)
ResumingAfterReconnect == pc = "run_loop" /\ err # "none" /\ running

\* C4: when the bridge resumes Running after a read failure and a
\* reconnection, the four latched raw stick readings are 0 and every entry of
\* the jitter memory is 0.
C4_FilterStateResetOnDisconnect ==
  (ResumingAfterReconnect /\ err = "read") =>
    /\ raw_left_x = 0 /\ raw_left_y = 0 /\ raw_right_x = 0 /\ raw_right_y = 0
    /\ \A k \in DOMAIN last : last[k] = 0

(************************ C5 **********************************************)
\* C5: the bridge goes from a read failure to Reconnecting only while the
\* device it last discovered is wireless.
C5_ReconnectOnlyForCurrentWireless ==
  (err = "read" /\ (pc = "zero_outputs" \/ JustEnteredReconnecting)) =>
    discovered.connection_type = "wireless"

(************************ C6 **********************************************)
\* Each discovery pass follows one sleep of poll_interval.
DiscoveryPasses == waited \div poll_interval

C6_StateOfWait ==
  /\ pc \in Reconnecting => DiscoveryPasses <= max_wait \div poll_interval
  /\ pc = "stopped" => NoPhysicalHeld /\ device # "open"

C6_StepOfWait ==
  (pc = "wait_loop" /\ waited >= max_wait /\ pc' # pc) =>
     pc' = "cleanup" /\ grabbed_devices' = <<>>

\* C6: one Reconnecting episode makes at most max_wait / poll_interval
\* discovery passes; when the wait is used up the bridge goes to
\* ShuttingDown with nothing acquired, and at Stopped no physical device is
\* held and the emulated device is gone.
C6_ReconnectIsBounded == []C6_StateOfWait /\ [][C6_StepOfWait]_vars

C6_Witness == pc = "wait_loop" /\ waited = max_wait /\ running /\ grabbed_devices = <<>>

(************************ C7 **********************************************)
PrimariesHeld == {i \in 1..Len(grabbed_devices) : grabbed_devices[i].role = "primary"}

\* C7: at most one handle in the list of acquired devices is a primary; the
\* event loop runs, and a batch of raw events exists, only while the
\* primary the bridge reads from is in that list.
C7_OnePrimaryAndFailClosed ==
  /\ Cardinality(PrimariesHeld) <= 1
  /\ pc \in Running => physical = Primary /\ Cardinality(PrimariesHeld) = 1
  /\ batch # <<>> => pc = "drain"

C7_Witness ==
  pc = "wait_loop" /\ waited > 0 /\ physical = Primary /\ grabbed_devices = <<>>

(************************ C8 **********************************************)
\* C8: a write failure on the emulated device is never followed by the
\* bridge resuming Running after a reconnection.
C8_WriteFailureIsFatal == ~(err = "write" /\ ResumingAfterReconnect)

(************************ C9 **********************************************)
\* C9: once the run flag is cleared, a bridge that is Reconnecting adopts no
\* further discovery result and acquires no physical device.
C9_CancelSeenBeforeNextAttempt ==
  [][(~running /\ pc \in Reconnecting) =>
       discovered' = discovered /\ grabbed_devices' = grabbed_devices]_vars

(************************ C10 *********************************************)
CancelRequested == pc # "idle" /\ ~running
Stopped == pc = "stopped" /\ NoPhysicalHeld /\ device # "open"

\* C10: under fair scheduling of the bridge thread, a cancellation requested
\* in any state of a started session leads to Stopped with no physical
\* device held and the emulated device gone.
C10_CancelLeadsToStopped == CancelRequested ~> Stopped

C10_Witness == CancelRequested /\ pc = "discover" /\ waited > poll_interval

(************************ C11 *********************************************)
C11_StateOfEmulatedDevice ==
  /\ pc \in {"idle", "create"} => device = "none"
  /\ pc \in {"open_devices", "run_loop"} \cup Running \cup Disconnected \cup Reconnecting =>
       device = "open"
  /\ emitted # <<>> => device = "open"

C11_StepOfEmulatedDevice ==
  device' # device =>
    \/ device = "none" /\ device' = "open" /\ pc = "create"
    \/ device = "open" /\ device' = "closed" /\ pc = "close"

\* C11: the emulated device comes into being in one step only, the
\* gamepad.create() of start(), and from no device at all, so at most once
\* in a session; nothing is emitted while it does not exist; it is open in
\* every state from there to the shutdown sequence, through every disconnect
\* and reconnection, and it goes away only in _cleanup's gamepad.close().
C11_CreatedOnceKeptUntilShutdown ==
  []C11_StateOfEmulatedDevice /\ [][C11_StepOfEmulatedDevice]_vars

\* The session started wireless and a reconnection has adopted a wired
\* discovery result; an event was translated afterwards.
C11_Witness ==
  /\ reconnect /\ discovered.connection_type = "wired"
  /\ pc \in Running /\ emitted # <<>> /\ device = "open"

(************************ C12 *********************************************)
\* _open_devices() has not run yet in this session.
NotYetAcquired == pc \in {"idle", "create", "open_devices"}

\* C12: while the primary physical device has not yet been acquired for the
\* first time, the emulated device does not exist.
C12_AcquiredBeforeCreated == NotYetAcquired => device # "open"

(************************ C13 *********************************************)
\* This step is a call of op on the component.
Called(op) == Len(calls') = Len(calls) + 1 /\ calls'[Len(calls')].op = op

Raised == calls'[Len(calls')].raised

C13_StepOfPublisher ==
  /\ Called("close") => device' # "open" /\ ~Raised
  /\ (Called("close") /\ device # "open") =>
       UNCHANGED gamepad_vars /\ emitted' = <<>>
  /\ \A op \in {"emit_button", "emit_axis", "syn"} :
       (Called(op) /\ device # "open") =>
          UNCHANGED gamepad_vars /\ emitted' = <<>> /\ ~Raised

\* C13: after any sequence of create, emit_button, emit_axis, syn and close
\* calls, close() leaves the publisher with no device and does not raise;
\* close() with no device (never created, or closed already) changes
\* nothing; emit_button, emit_axis and syn with no device write nothing,
\* change nothing and do not raise.
C13_CloseIsIdempotent == [][C13_StepOfPublisher]_vars

\* A device was created, then closed twice, then written to.
C13_Witness ==
  /\ Len(calls) = 4
  /\ calls[1] = [op |-> "create", raised |-> FALSE]
  /\ calls[2].op = "close" /\ calls[3].op = "close"
  /\ calls[4].op = "emit_axis"
  /\ device = "closed"

(************************ discovery: the claims' terms ********************)
\* A discovery pass has been made; what it returned.
Discovered == calls # <<>> /\ calls[1].op = "discover_scuf"
Result == calls[1].ret

\* The input nodes the pass enumerates: the entries of the listing whose
\* device node exists.  An entry without one is no input node yet.
InputNodes == {d \in {sysfs[i] : i \in 1..Len(sysfs)} : d.dev_node}

\* The input nodes that match the vendor id and one of the two product ids.
MatchingNodes ==
  {d \in InputNodes : /\ d.vendor = SCUF_VENDOR_ID
                      /\ d.product \in {SCUF_PRODUCT_ID_WIRED, SCUF_PRODUCT_ID_RECEIVER}}

WithSibling == {d \in MatchingNodes : d.has_js}
WithCapabilities == {d \in MatchingNodes : has_gamepad_capabilities(d)}

\* The number of the numerically lowest node of S.
Lowest(S) == (CHOOSE d \in S : \A e \in S : d.number <= e.number).number

PrimaryNode == CHOOSE d \in MatchingNodes : d.number = Result.event_path

(************************ C14 *********************************************)
\* C14: when a matching node has a joystick-class sibling, the primary is the
\* numerically lowest matching node that has one, in whatever order the
\* nodes were enumerated and whatever the capabilities of the others.
C14_SiblingDecides ==
  (Discovered /\ WithSibling # {}) =>
     Result.found /\ Result.event_path = Lowest(WithSibling)

\* The node with the sibling is listed first and numbered higher than a
\* matching node without sibling that has gamepad capabilities.
C14_Witness ==
  /\ Discovered /\ Len(sysfs) = 2
  /\ sysfs[1] \in WithSibling /\ sysfs[2] \in WithCapabilities \ WithSibling
  /\ sysfs[1].number > sysfs[2].number
  /\ Result.event_path = sysfs[1].number

(************************ C15 *********************************************)
Secondaries ==
  {Result.secondary_event_paths[i] : i \in 1..Len(Result.secondary_event_paths)}

\* C15: the secondary list of a discovery result holds each matching node
\* other than the primary once, and nothing else; the primary is a matching
\* node.
C15_SecondariesAreTheRest ==
  (Discovered /\ Result.found) =>
     /\ Result.event_path \in {d.number : d \in MatchingNodes}
     /\ Secondaries = {d.number : d \in MatchingNodes} \ {Result.event_path}
     /\ Cardinality(Secondaries) = Len(Result.secondary_event_paths)

\* The primary was chosen by its capabilities and is not the first matching node.
C15_Witness ==
  /\ Discovered /\ Result.found
  /\ WithSibling = {} /\ WithCapabilities # {}
  /\ Secondaries # {} /\ \A s \in Secondaries : s < Result.event_path

(************************ C16 *********************************************)
\* C16: the connection type of a discovery result is wireless exactly when
\* the primary node has the receiver's product id, and wired exactly when it
\* has the wired product id.
C16_ConnectionTypeOfPrimary ==
  (Discovered /\ Result.found) =>
     /\ Result.connection_type = "wireless" <=>
          PrimaryNode.product = SCUF_PRODUCT_ID_RECEIVER
     /\ Result.connection_type = "wired" <=>
          PrimaryNode.product = SCUF_PRODUCT_ID_WIRED

\* Nodes of both product ids match; the primary is the wired one.
C16_Witness ==
  /\ Discovered /\ Result.found /\ Result.connection_type = "wired"
  /\ \E d \in MatchingNodes : d.product = SCUF_PRODUCT_ID_RECEIVER

(************************ C17 *********************************************)
\* The nodes whose capabilities the pass read.
Probed == {calls[1].probed[i] : i \in 1..Len(calls[1].probed)}

C18_TablesAreInjective ==
  \A i, j \in 1..Len(calls) :
     (calls[i].type = calls[j].type /\ calls[i].code # calls[j].code) =>
        calls[i].mapped # calls[j].mapped

\* A remapped button and a paddle.
C18_Witness ==
  /\ Len(calls) = 2
  /\ calls[1].type = "EV_KEY" /\ calls[1].code = ecodes["BTN_C"]
  /\ calls[1].mapped = ecodes["BTN_NORTH"]
  /\ calls[2].type = "EV_KEY" /\ calls[2].code = ecodes["BTN_TRIGGER_HAPPY1"]

(************************ C19 *********************************************)
\* C19: for every key, value and threshold of at least 1, when a call of
\* suppress_jitter returns changed = true and the next call has the same key
\* and the same value, that next call returns the value with changed = false
\* and leaves the jitter memory as it was.
C19_RepeatIsSuppressed ==
  \A i \in 1..(Len(calls) - 1) :
     (/\ calls[i].changed
      /\ calls[i + 1].key = calls[i].key
      /\ calls[i + 1].new_value = calls[i].new_value) =>
        /\ calls[i + 1].value = calls[i].new_value
        /\ ~calls[i + 1].changed
        /\ calls[i + 1].last = calls[i].last

\* A change on a key that had a value in memory, then the same value again.
C19_Witness ==
  /\ Len(calls) = 3
  /\ calls[1].key = calls[2].key /\ calls[2].key = calls[3].key
  /\ calls[2].changed /\ calls[2].new_value # calls[1].new_value
  /\ calls[3].new_value = calls[2].new_value /\ ~calls[3].changed

(************************ C20 *********************************************)
\* The calls i..j that are on key k.
CallsOn(k, i, j) == {n \in i..j : calls[n].key = k}

\* Any two values fed by the calls S differ by less than the threshold.
Steady(S) ==
  \A a, b \in S : Abs(calls[a].new_value - calls[b].new_value) < jitter_threshold

\* C20: among consecutive calls of suppress_jitter on one key whose values
\* differ pairwise by less than the threshold, at most one returns
\* changed = true; when they are the first calls on that key, it is the first
\* of them that does.
C20_SteadyChannelChangesOnce ==
  \A k \in {"lt", "rt"} : \A i, j \in 1..Len(calls) :
     Steady(CallsOn(k, i, j)) =>
        /\ Cardinality({n \in CallsOn(k, i, j) : calls[n].changed}) <= 1
        /\ i = 1 => \A n \in CallsOn(k, i, j) :
                       calls[n].changed <=> (\A o \in CallsOn(k, i, j) : n <= o)

\* Three different values, pairwise closer than the threshold, on one key.
C20_Witness ==
  /\ Len(calls) = 3
  /\ Cardinality(CallsOn("lt", 1, 3)) = 3 /\ Steady(CallsOn("lt", 1, 3))
  /\ Cardinality({calls[n].new_value : n \in 1..3}) = 3
  /\ calls[1].changed /\ ~calls[2].changed /\ ~calls[3].changed

(************************ C21 **********************************************)
FilterStickCalled == calls # <<>> /\ calls[1].op = "filter_stick"

\* x*x + y*y <= r*r, the squares formed only when they are small.
WithinCircle(x, y, r) == Abs(x) <= r /\ Abs(y) <= r /\ x * x + y * y <= r * r

\* C21: filter_stick returns (0, 0) for every integer reading (x, y) whose
\* x*x + y*y is strictly less than the square of the deadzone threshold, and
\* also for a reading whose magnitude equals the threshold exactly.
C21_DeadzoneYieldsZero ==
  FilterStickCalled /\ WithinCircle(calls[1].x, calls[1].y, STICK_DEADZONE)
    => calls[1].value = <<0, 0>>

\* A reading exactly on the deadzone circle, off the axes: 2100, 2800, 3500.
C21_Witness ==
  /\ FilterStickCalled
  /\ calls[1].x = -2100 /\ calls[1].y = 2800
  /\ calls[1].x * calls[1].x + calls[1].y * calls[1].y = STICK_DEADZONE * STICK_DEADZONE
  /\ calls[1].value = <<0, 0>>

(************************ C22 **********************************************)
HandleEventCalled == calls # <<>> /\ calls[1].op = "handle_event"

\* The latest call found the bridge at rest: it is the first of the session.
AtRest == calls[1].n = 1 /\ calls[1].before.last = EmptyMem

\* v does not have the opposite sign of w.
NotOpposite(v, w) == ~(w > 0 /\ v < 0) /\ ~(w < 0 /\ v > 0)

\* The emissions: every write is followed by its sync, so the syncs count them.
Emissions(ws) == Cardinality({i \in 1..Len(ws) : ws[i].type = "EV_SYN"})

StickCodes == {"ABS_X", "ABS_Y", "ABS_Z", "ABS_RZ"}

\* C23: on a bridge at rest a raw stick event that leaves the latched pair at
\* (0, 0) is filtered to (0, 0) and causes no axis emission and no sync.
C23_ZeroAtRestEmitsNothing ==
  HandleEventCalled /\ AtRest
  /\ calls[1].event \in {abs_event(c, 0) : c \in StickCodes}
    => /\ <<raw_left_x, raw_left_y>> = <<0, 0>>
       /\ <<raw_right_x, raw_right_y>> = <<0, 0>>
       /\ filter_stick(0, 0) = <<0, 0>>
       /\ emitted = <<>>

(************************ C24 **********************************************)
\* The latest call wrote the axis code c to the emulated device.
Written(c) == \E i \in 1..Len(emitted) : emitted[i].type = "EV_ABS" /\ emitted[i].code = c

\* What C24 says of the latest call when it handled one of codes, the raw
\* codes of the stick stick_name, latched at (raw_x, raw_y) afterwards.
OnlyChangedWritten(codes, stick_name, raw_x, raw_y, out_x_code, out_y_code) ==
  HandleEventCalled /\ calls[1].event.type = "EV_ABS" /\ calls[1].event.code \in {codes[1], codes[2]}
    => LET f == filter_stick(raw_x, raw_y)
           sx == suppress_jitter(calls[1].before.last, stick_name \o "_x", f[1])
           sy == suppress_jitter(sx.mem, stick_name \o "_y", f[2])
       IN /\ calls[1].event.value = IF calls[1].event.code = codes[1] THEN raw_x ELSE raw_y
          /\ last = sy.mem
          /\ Written(out_x_code) <=> sx.changed
          /\ Written(out_y_code) <=> sy.changed
          /\ ~sx.changed /\ ~sy.changed => emitted = <<>>

\* C24: a raw event on either component of a stick pair updates the pair's
\* latched raw value, re-runs the deadzone filter and jitter suppression for
\* both components, and writes an axis event only for the components whose
\* suppressed value changed: an unchanged component is never written, and
\* when neither changed nothing is emitted and no sync is sent.
C24_OnlyChangedComponentsWritten ==
  /\ OnlyChangedWritten(<<"ABS_X", "ABS_Y">>, "left", raw_left_x, raw_left_y,
                        "ABS_X", "ABS_Y")
  /\ OnlyChangedWritten(<<"ABS_Z", "ABS_RZ">>, "right", raw_right_x, raw_right_y,
                        "ABS_RX", "ABS_RY")

(************************ C25 **********************************************)
\* The canonical codes the two button tables map to.
CanonicalButtons ==
  {BUTTON_MAP[c] : c \in DOMAIN BUTTON_MAP} \cup {PADDLE_MAP[c] : c \in DOMAIN PADDLE_MAP}

\* C25: a button event is looked up in the button map, then in the paddle
\* map; on a hit exactly one button event with the canonical code and the
\* unchanged value is emitted and synchronized; on a miss nothing is emitted,
\* for press or release; no code outside the canonical values of the two maps
\* reaches the emulated device as a button.
C25_ButtonsTranslatedOrDropped ==
  /\ HandleEventCalled /\ calls[1].event.type = "EV_KEY" =>
       LET e == calls[1].event
       IN emitted =
            IF e.code \in DOMAIN BUTTON_MAP
            THEN <<key_event(BUTTON_MAP[e.code], e.value), syn_event>>
            ELSE IF e.code \in DOMAIN PADDLE_MAP
            THEN <<key_event(PADDLE_MAP[e.code], e.value), syn_event>>
            ELSE <<>>
  /\ \A i \in 1..Len(emitted) :
       emitted[i].type = "EV_KEY" => emitted[i].code \in CanonicalButtons

\* The press of a button neither table knows, after a translated one.
C25_Witness ==
  /\ HandleEventCalled /\ calls[1].n > 1
  /\ calls[1].event = key_event("BTN_DPAD_UP", 1)
  /\ "BTN_DPAD_UP" \notin DOMAIN BUTTON_MAP \cup DOMAIN PADDLE_MAP
  /\ emitted = <<>>

(************************ C26 **********************************************)
TriggerCodes == {"ABS_RX", "ABS_RY"}

\* C26: a raw event on a trigger axis goes through the trigger deadzone
\* (below the threshold 0, otherwise unchanged) and then through jitter
\* suppression on that trigger's own channel; the canonical trigger axis is
\* emitted and synchronized exactly when suppression reports a change, and
\* the jitter memory of the other trigger and of the sticks is left as it was.
C26_TriggerFilteredThenSuppressed ==
  HandleEventCalled /\ calls[1].event.type = "EV_ABS"
  /\ calls[1].event.code \in TriggerCodes =>
    LET e == calls[1].event
        mem == calls[1].before.last
        key == IF e.code = "ABS_RX" THEN "lt" ELSE "rt"
        filtered == IF e.value < TRIGGER_DEADZONE THEN 0 ELSE e.value
        s == suppress_jitter(mem, key, filtered)
    IN /\ emitted = IF s.changed
                    THEN <<abs_event(AXIS_MAP[e.code], filtered), syn_event>>
                    ELSE <<>>
       /\ DOMAIN last \subseteq DOMAIN mem \cup {key}
       /\ \A k \in DOMAIN mem \ {key} : k \in DOMAIN last /\ last[k] = mem[k]
       /\ key \in DOMAIN last /\ last[key] = s.value

\* The left trigger falls from 100 to below the deadzone while the right
\* trigger has a remembered value: 0 is emitted on the left trigger's axis.
C26_Witness ==
  /\ HandleEventCalled
  /\ calls[1].event = abs_event("ABS_RX", TRIGGER_DEADZONE - 5)
  /\ "rt" \in DOMAIN calls[1].before.last
  /\ "lt" \in DOMAIN calls[1].before.last /\ calls[1].before.last["lt"] = 100
  /\ emitted = <<abs_event("ABS_Z", 0), syn_event>>
  /\ last["rt"] = calls[1].before.last["rt"]

(************************ C27 **********************************************)
\* The filter state the latest call left is the one it found.
FilterStateKept ==
  /\ last = calls[1].before.last
  /\ <<raw_left_x, raw_left_y, raw_right_x, raw_right_y>>
       = <<calls[1].before.raw_left_x, calls[1].before.raw_left_y,
           calls[1].before.raw_right_x, calls[1].before.raw_right_y>>

\* C27: a raw event on a mapped axis that is neither a stick component nor a
\* trigger (the d-pad axes) is emitted with its canonical code and its raw
\* value, followed immediately by a sync, on every such event and without
\* touching the filter state; a raw axis event whose code is not in the axis
\* map produces no emission.
C27_DpadPassedThrough ==
  HandleEventCalled /\ calls[1].event.type = "EV_ABS" =>
    LET e == calls[1].event
    IN /\ e.code \in DOMAIN AXIS_MAP \ (StickCodes \cup TriggerCodes) =>
            /\ emitted = <<abs_event(AXIS_MAP[e.code], e.value), syn_event>>
            /\ FilterStateKept
       /\ e.code \notin DOMAIN AXIS_MAP => emitted = <<>>

\* A d-pad event arriving third or later in a session, with jitter memory
\* already in use.
C27_Witness ==
  /\ HandleEventCalled /\ calls[1].n > 2
  /\ calls[1].event = abs_event("ABS_HAT0X", -1)
  /\ calls[1].before.last # EmptyMem
  /\ emitted = <<abs_event("ABS_HAT0X", -1), syn_event>>
  /\ FilterStateKept

(************************ C28 **********************************************)
\* The handles held are the primary and, after it, secondaries of the
\* discovery result d, each at most once and in d's order.
PrimaryAndSomeSecondaries(held, d) ==
  /\ held # <<>> /\ held[1] = Primary
  /\ \A i \in 2..Len(held) :
       /\ held[i].role = "secondary"
       /\ held[i].path \in SecondaryPaths(d)
       /\ \A j \in 2..(i - 1) : held[j].path < held[i].path

C28_StepOfAcquisition ==
  /\ pc \in {"open_devices", "discover"} /\ pc' = "run_loop"
       => PrimaryAndSomeSecondaries(grabbed_devices', discovered')
  /\ pc = "open_devices" /\ pc' # pc
       => \/ pc' = "run_loop" /\ physical' = Primary
          \/ pc' = "cleanup" /\ grabbed_devices' = <<>>

\* C28: failing to open or grab a secondary is never fatal: the bridge goes
\* on to Running with the primary and the remaining secondaries acquired;
\* failing to open or grab the primary at startup is fatal and ends the
\* session through the shutdown sequence with no secondary acquired.
C28_OnlyThePrimaryIsFatal == [][C28_StepOfAcquisition]_vars

\* Running after startup with the first of two secondaries missing.
C28_Witness ==
  /\ pc \in Running /\ err = "none"
  /\ Len(discovered.secondary_event_paths) = 2
  /\ grabbed_devices = <<Primary, Secondary(discovered.secondary_event_paths[2])>>

(************************ C29 **********************************************)
PrimaryAcquired(held) == \E i \in 1..Len(held) : held[i] = Primary

C29_StepOfReconnection ==
  /\ pc = "discover" /\ pc' # pc
       => \/ pc' = "run_loop" /\ PrimaryAcquired(grabbed_devices')
          \/ /\ pc' = "wait_loop" /\ ~PrimaryAcquired(grabbed_devices')
             /\ waited' = waited
  /\ pc = "wait_loop" /\ pc' # pc
       => IF running /\ waited < max_wait
          THEN pc' = "sleep" /\ waited' = waited
          ELSE pc' = "cleanup"
  /\ pc = "sleep" /\ pc' # pc
       => pc' = "discover" /\ waited' = waited + poll_interval

\* C29: in Reconnecting, a discovery pass that finds the device but fails to
\* acquire the primary does not abort reconnection: the bridge stays in
\* Reconnecting and tries again after the fixed interval, until an attempt
\* succeeds, the maximum wait is used up or cancellation is requested; it
\* resumes Running only after an attempt in which the primary was acquired.
C29_FailedAttemptIsRetried == [][C29_StepOfReconnection]_vars

\* A second attempt is due after a pass that found the device and opened
\* the primary but could not grab it.
C29_Witness ==
  /\ pc = "sleep" /\ running
  /\ waited = poll_interval
  /\ physical = Primary /\ ~PrimaryAcquired(grabbed_devices)

(************************ C30 **********************************************)
\* The filtered value of a trigger is 0 when the latest call handled an
\* event of raw code c below the trigger deadzone.
TriggerFilteredToZero(c) ==
  /\ HandleEventCalled
  /\ calls[1].event.type = "EV_ABS" /\ calls[1].event.code = c
  /\ filter_trigger(calls[1].event.value) = 0

\* C30: whenever the most recent filtered value of an analog channel is 0
\* (stick pair inside the deadzone, or trigger below its deadzone), the value
\* last emitted to the emulated device on that channel is 0.
C30_NoResidualDrift ==
  /\ filter_stick(raw_left_x, raw_left_y)[1] = 0 => vabs["ABS_X"] = 0
  /\ filter_stick(raw_left_x, raw_left_y)[2] = 0 => vabs["ABS_Y"] = 0
  /\ filter_stick(raw_right_x, raw_right_y)[1] = 0 => vabs["ABS_RX"] = 0
  /\ filter_stick(raw_right_x, raw_right_y)[2] = 0 => vabs["ABS_RY"] = 0
  /\ TriggerFilteredToZero("ABS_RX") => vabs["ABS_Z"] = 0
  /\ TriggerFilteredToZero("ABS_RY") => vabs["ABS_RZ"] = 0

(************************ C31 **********************************************)
\* The jitter-memory key of each analog channel of the emulated device.
ChannelKey ==
  [a \in AnalogAxes |->
     CASE a = "ABS_X"  -> "left_x"
       [] a = "ABS_Y"  -> "left_y"
       [] a = "ABS_RX" -> "right_x"
       [] a = "ABS_RY" -> "right_y"
       [] a = "ABS_Z"  -> "lt"
       [] a = "ABS_RZ" -> "rt"]

\* C31: in every reachable state, after any number of disconnect/reconnect
\* cycles, for each of the six analog channels that has a jitter-memory entry
\* the value last written to the emulated device on that channel equals the
\* jitter memory's value.  States that follow a failed write, where the
\* memory is ahead of the device by the write that failed, are left aside.
C31_EmulatedEqualsMemory ==
  err # "write" =>
    \A a \in AnalogAxes :
      ChannelKey[a] \in DOMAIN last => vabs[a] = last[ChannelKey[a]]

(************************ C32 **********************************************)
\* C32: releasing the physical devices closes every handle that was in the
\* acquired set, also when un-grabbing a handle fails; afterwards the
\* acquired set is empty and no handle the bridge opened is left open.
C32_ReleaseClosesEveryHandle ==
  calls # <<>> /\ calls[1].op = "release_physical"
    => grabbed_devices = <<>> /\ physical = None /\ calls[1].open = {}

(************************ C33 **********************************************)
\* The latest call is _handle_event or _zero_virtual_outputs.
WriterCalled == calls # <<>> /\ calls[1].op \in {"handle_event", "zero_virtual_outputs"}

\* The positions of ws that hold a button or an axis write.
Coded(ws) == {i \in 1..Len(ws) : ws[i].type # "EV_SYN"}

\* The write w uses a code the emulated device declared.
Declared(w) == w.type \in DOMAIN create_capabilities /\ w.code \in create_capabilities[w.type]

\* The raw codes of the stick a raw stick code belongs to, x then y.
StickPair ==
  [c \in StickCodes |-> IF c \in {"ABS_X", "ABS_Y"} THEN <<"ABS_X", "ABS_Y">>
                                                     ELSE <<"ABS_Z", "ABS_RZ">>]

\* The latest call handled a raw axis event whose code is in codes.
AxisEventOf(codes) ==
  /\ calls # <<>> /\ calls[1].op = "handle_event"
  /\ calls[1].event.type = "EV_ABS" /\ calls[1].event.code \in codes

\* The axis write w gives its channel another value than the one the latest
\* call found remembered for it (0 when none was).
Moved(w) ==
  w.value # (IF ChannelKey[w.code] \in DOMAIN calls[1].before.last
             THEN calls[1].before.last[ChannelKey[w.code]] ELSE 0)

\* C33 as stated, the second half only for the writes that change a value:
\* every button or axis write of _handle_event and of the zero frame uses a
\* declared code, and every code a stick or trigger event causes to be
\* written with a new value is the axis map's code for the raw code of that
\* event.
C33_EveryCodeIsOfTheReceivedCode ==
  /\ WriterCalled => \A i \in Coded(emitted) : Declared(emitted[i])
  /\ AxisEventOf(StickCodes \cup TriggerCodes)
       => \A i \in Coded(emitted) :
            Moved(emitted[i]) => emitted[i].code = AXIS_MAP[calls[1].event.code]

\* C33: every button or axis write of _handle_event and of the zero frame uses
\* a code the emulated device declared at creation; a trigger event writes
\* nothing but the axis map's code for the raw code received, and a stick
\* event that writes at all writes the axis map's codes for the two raw codes
\* of the stick the received code belongs to, x then y.
C33_EveryCodeDeclaredAndCanonical ==
  /\ WriterCalled => \A i \in Coded(emitted) : Declared(emitted[i])
  /\ AxisEventOf(TriggerCodes)
       => \A i \in Coded(emitted) : emitted[i].code = AXIS_MAP[calls[1].event.code]
  /\ AxisEventOf(StickCodes) /\ emitted # <<>>
       => /\ Coded(emitted) = {1, 2}
          /\ \A i \in {1, 2} :
               emitted[i].code = AXIS_MAP[StickPair[calls[1].event.code][i]]

\* A raw event on the y axis of the left stick has moved both components: the
\* x component is written under ABS_X, the y component under ABS_Y.
C33_Witness ==
  /\ AxisEventOf({"ABS_Y"})
  /\ calls[1].before.raw_left_x = 3000 /\ raw_left_y = 4000
  /\ Len(emitted) = 3
  /\ emitted[1].code = "ABS_X" /\ emitted[1].value > 0
  /\ emitted[2].code = "ABS_Y" /\ emitted[2].value > emitted[1].value

(************************ C34 **********************************************)
\* The step is _handle_event returning from one raw event of the batch.
EventHandled == pc = "drain" /\ batch' # batch /\ pc' # write_error_lands

\* The step is _zero_virtual_outputs returning.
ZeroFrameWritten == pc = "zero_outputs" /\ pc' = "wait_loop"

\* Every button or axis write of ws is followed by a sync of ws.
EveryWriteSynced(ws) ==
  \A i \in Coded(ws) : \E j \in (i + 1)..Len(ws) : ws[j].type = "EV_SYN"

C34_StepOfHandling ==
  EventHandled \/ ZeroFrameWritten => ~unsynced' /\ EveryWriteSynced(emitted')

\* C34: when _handle_event returns from a raw event and when the zero frame
\* has been written, the emulated device holds no write that no sync has
\* followed: every button or axis write of the step is followed by a sync of
\* the same step, and no earlier write is left waiting for one.
C34_NothingLeftUnsynced == [][C34_StepOfHandling]_vars

\* The zero frame has been written after a write to the emulated device
\* failed: its sync has flushed whatever the failed step left behind.
C34_Witness ==
  /\ pc = "wait_loop" /\ err = "write"
  /\ emitted = zero_frame
  /\ ~unsynced

====
